---- MODULE Spec2Model ----
(***************************************************************************)
(* Model of the ACH REST service (src/routes/routesAch.mjs): five express  *)
(* handlers over the table ach_data, reached through the pg-promise        *)
(* methods db.any, db.oneOrNone, db.one and db.result.                     *)
(*                                                                         *)
(* Every handler is `async`: it runs synchronously up to its `await db.x`, *)
(* the database executes the statement at some later moment, and the       *)
(* continuation then writes the HTTP response.  A request in flight is an  *)
(* element of `inflight` whose pc is "awaiting" (statement sent), then     *)
(* "resolved" (promise settled, continuation not yet run); a handler that  *)
(* takes the early `return` of the validation is "returning".  The         *)
(* response a handler writes is a function of that state (Answer), and     *)
(* writing it ends the exchange.                                           *)
(***************************************************************************)
EXTENDS Integers, Sequences, FiniteSets, Bags

\* ---------------------------------------------------------------- bounds
MaxId == 2          \* ids the sequence of ach_data.id hands out: 1..MaxId

Ids == 1..MaxId
\* The handler invocations that can be in flight at the same time.  They
\* are interchangeable: what is in flight is the bag of their requests.
Slots == {1, 2}

\* ------------------------------------------------------------- JS values
\* A JSON value of a request body.  All values share one record shape so
\* that any two of them can be compared.
Num(n) == [t |-> "number", n |-> n, s |-> ""]
Str(s) == [t |-> "string", n |-> 0, s |-> s]
Null == [t |-> "null", n |-> 0, s |-> ""]
Undefined == [t |-> "undefined", n |-> 0, s |-> ""]

\* A presence test in place of ToBoolean: only null and undefined fail it.
TruthyPresent(v) == v.t \notin {"null", "undefined"}

\* JavaScript ToBoolean, as used by the `!x` of the handlers.
Truthy(v) ==
    CASE v.t = "number" -> v.n # 0
      [] v.t = "string" -> v.s # ""
      [] OTHER -> FALSE

Fields == {"roomName", "roomVolume", "airflowRate", "ach"}

\* const { roomName, ... } = req.body : an omitted key reads as undefined.
Destructure(body, f) == IF f \in DOMAIN body THEN body[f] ELSE Undefined

\* if (!roomName || !roomVolume || !airflowRate || !ach)
MissingField(body) ==
    \/ ~Truthy(Destructure(body, "roomName"))
    \/ ~Truthy(Destructure(body, "roomVolume"))
    \/ ~Truthy(Destructure(body, "airflowRate"))
    \/ ~Truthy(Destructure(body, "ach"))

\* ------------------------------------------------------- request inputs
LabA == [roomName |-> Str("Lab A"), roomVolume |-> Num(100),
         airflowRate |-> Num(2000), ach |-> Num(20)]
Office == [roomName |-> Str("Office"), roomVolume |-> Num(50),
           airflowRate |-> Num(300), ach |-> Num(6)]
ValidBodies == {LabA, Office}

Falsy == {Num(0), Str(""), Null}
\* LabA with one field replaced by a falsy value, or left out.
FaultyBodies ==
    {[LabA EXCEPT ![f] = v] : f \in Fields, v \in Falsy}
        \cup {[g \in Fields \ {f} |-> LabA[g]] : f \in Fields}
ZeroAch == [LabA EXCEPT !["ach"] = Num(0)]

\* The body of a request whose handler reads none.
NoBody == [g \in Fields |-> Undefined]

\* Path parameters are strings; the statement compares the column id
\* with the text, which PostgreSQL reads as an integer or rejects.
IdText == <<"1", "2", "3", "4", "5", "6">>
PathIds == {IdText[i] : i \in Ids} \cup {"abc"}
IsIntText(s) == \E i \in 1..Len(IdText) : IdText[i] = s
PgInt(s) == CHOOSE i \in 1..Len(IdText) : IdText[i] = s

\* ------------------------------------------------------------------ state
VARIABLES
    table,      \* ach_data: a set of rows
    nextId,     \* the next value of the sequence behind ach_data.id
    inflight,   \* the bag of the requests in flight
    written,    \* history: id -> body of the latest INSERT or UPDATE that
                \* wrote the row, NoBody before its INSERT and after its DELETE
    touched,    \* history: ids hit by an UPDATE or DELETE statement
    answered201,\* history: id -> number of 201 responses that carried it
    answered204 \* history: id -> number of 204 responses to DELETE of it

vars == <<table, nextId, inflight, written, touched,
          answered201, answered204>>
hist == <<written, touched, answered201, answered204>>

\* A row of ach_data, under the column names of the INSERT statement.
Row(id, p) ==
    [id |-> id, room_name |-> p[1], room_volume |-> p[2],
     airflow_rate |-> p[3], ach |-> p[4]]

\* What an adapter call settles with.  rows is the bag of rows it returns:
\* the array of pg-promise up to its order, which is the storage's.
NoResult == [kind |-> "none", rows |-> EmptyBag, rowCount |-> 0, error |-> ""]
Rejected(e) == [kind |-> "error", rows |-> EmptyBag, rowCount |-> 0, error |-> e]

\* A handler invocation (an HTTP exchange).  calls counts the adapter calls
\* it made; removed and added are what its statement took from and put
\* into the table.  The other fields are observations.  Taken when it
\* started: after201 / after204 (a 201 carrying its path id / a 204 for its
\* path id had been written before), existed (a row of its path id was in
\* the table).  Taken when its statement ran: matched (the WHERE clause
\* matched a row), fresh (the id of the new row was held by no row), expect
\* (the records created and not deleted, as last written).
Request(op, id, body) ==
    [pc |-> "running", op |-> op, id |-> id, body |-> body,
     result |-> NoResult, calls |-> 0, removed |-> {}, added |-> {},
     after201 |-> FALSE, after204 |-> FALSE, existed |-> FALSE,
     matched |-> FALSE, fresh |-> FALSE, expect |-> {}]

Init ==
    /\ table = {}
    /\ nextId = 1
    /\ inflight = EmptyBag
    /\ written = [i \in Ids |-> NoBody]
    /\ touched = {}
    /\ answered201 = [i \in Ids |-> 0]
    /\ answered204 = [i \in Ids |-> 0]

\* ------------------------------------------------------------- responses
\* res.json(data) with an array / an object, res.status(c).json({message}),
\* res.status(204).send().
JsonArray(status, rows) ==
    [status |-> status, kind |-> "array", rows |-> rows, message |-> ""]
JsonObject(status, row) ==
    [status |-> status, kind |-> "object", rows |-> SetToBag({row}), message |-> ""]
JsonMessage(status, m) ==
    [status |-> status, kind |-> "message", rows |-> EmptyBag, message |-> m]
Empty(status) ==
    [status |-> status, kind |-> "empty", rows |-> EmptyBag, message |-> ""]

\* The object of a response of kind "object", the row of a one-row result.
TheRow(rows) == CHOOSE r \in BagToSet(rows) : TRUE

\* ------------------------------------------------------------ dispatching
InFlight == BagToSet(inflight)

\* express runs a handler for the request if an invocation is left.
FreeSlot(K) == BagCardinality(inflight) < K

\* Request q enters, and leaves at the end of its exchange; in between it
\* moves on from state q to state r.
Enter(q) == inflight' = inflight (+) SetToBag({q})
Leave(q) == inflight' = inflight (-) SetToBag({q})
Move(q, r) == inflight' = (inflight (-) SetToBag({q})) (+) SetToBag({r})

\* The statement of q is sent; the handler is suspended at its await.
Suspended(q) == [q EXCEPT !.pc = "awaiting", !.calls = @ + 1]

\* The handler takes the early return of the validation.
Returning(q) == [q EXCEPT !.pc = "returning"]

\* The promise of request q settles with result r, its statement having
\* turned the table t into u.
Settled(q, r, t, u) ==
    [q EXCEPT !.pc = "resolved", !.result = r,
              !.removed = t \ u, !.added = u \ t]

\* ---------------------------------------------------- persistence adapter
\* "SELECT * FROM ach_data": every row of the table, once
SelectAll(t) == SetToBag(t)

\* "... WHERE id = $1"
Matching(t, id) == {r \in t : r.id = PgInt(id)}
\* "SELECT * FROM ach_data WHERE id = $1"
SelectById(t, id) == SetToBag(Matching(t, id))

\* "INSERT INTO ach_data(room_name, room_volume, airflow_rate, ach)
\*  VALUES($1, $2, $3, $4) RETURNING *", the id drawn from the sequence
InsertParams(body) ==
    <<Destructure(body, "roomName"), Destructure(body, "roomVolume"),
      Destructure(body, "airflowRate"), Destructure(body, "ach")>>
\* The id computed from the number of rows instead of drawn from the sequence.
NewRowCounted(t, seq, p) == Row(Cardinality(t) + 1, p)
NewRow(t, seq, p) == Row(seq, p)
InsertInto(t, row) == t \cup {row}
Inserted(row) == SetToBag({row})

\* "UPDATE ach_data SET room_name = $1, room_volume = $2, airflow_rate = $3,
\*  ach = $4 WHERE id = $5 RETURNING *"
UpdateParams(body, id) ==
    <<Destructure(body, "roomName"), Destructure(body, "roomVolume"),
      Destructure(body, "airflowRate"), Destructure(body, "ach"), id>>
\* The UPDATE leaving the old version of the row in place.
UpdateAppend(t, p) == t \cup {Row(r.id, p) : r \in Matching(t, p[5])}
\* The UPDATE without its WHERE clause, once a row of the id is there.
UpdateEveryRow(t, p) ==
    IF Matching(t, p[5]) = {} THEN t ELSE {Row(r.id, p) : r \in t}
\* The UPDATE inserting the row when none matches.
Upsert(t, p) ==
    IF Matching(t, p[5]) = {}
    THEN t \cup {Row(PgInt(p[5]), p)}
    ELSE (t \ Matching(t, p[5])) \cup {Row(r.id, p) : r \in Matching(t, p[5])}
UpdateSet(t, p) ==
    (t \ Matching(t, p[5])) \cup {Row(r.id, p) : r \in Matching(t, p[5])}
Updated(t, p) == SetToBag({Row(r.id, p) : r \in Matching(t, p[5])})

\* The DELETE without its WHERE clause.
DeleteAll(t, id) == {}
\* "DELETE FROM ach_data WHERE id = $1"
DeleteFrom(t, id) == t \ Matching(t, id)

BadInteger == "invalid input syntax for type integer"
NoData == "No data returned from the query."
MultipleRows == "Multiple rows were not expected."
ConnectionLost == "ECONNREFUSED"

\* db.any: every row.
DbAny(rows) ==
    [kind |-> "rows", rows |-> rows, rowCount |-> BagCardinality(rows), error |-> ""]
\* db.oneOrNone: the row, null for none, rejected for more than one.
DbOneOrNone(rows) ==
    IF BagCardinality(rows) = 0
    THEN [kind |-> "null", rows |-> EmptyBag, rowCount |-> 0, error |-> ""]
    ELSE IF BagCardinality(rows) = 1
         THEN [kind |-> "row", rows |-> rows, rowCount |-> 1, error |-> ""]
         ELSE Rejected(MultipleRows)
\* db.one: the row, rejected for none and for more than one.
DbOne(rows) ==
    IF BagCardinality(rows) = 0 THEN Rejected(NoData)
    ELSE IF BagCardinality(rows) = 1
         THEN [kind |-> "row", rows |-> rows, rowCount |-> 1, error |-> ""]
         ELSE Rejected(MultipleRows)
\* db.result: the result object with its rowCount.
DbResult(n) == [kind |-> "count", rows |-> EmptyBag, rowCount |-> n, error |-> ""]

\* ------------------------------------------------------- the continuations
\* router.get("/")
GetAllResponse(r) ==
    IF r.kind = "error" THEN JsonMessage(500, "Error fetching data")
    ELSE JsonArray(200, r.rows)

\* router.get("/:id")
GetByIdResponse(r) ==
    IF r.kind = "error" THEN JsonMessage(500, "Error fetching data")
    ELSE IF r.kind = "row" THEN JsonObject(200, TheRow(r.rows))
    ELSE JsonMessage(404, "Record not found")

\* The catch block of router.post sending the error's message.
PostResponseEchoError(r) ==
    IF r.kind = "error" THEN JsonMessage(500, r.error)
    ELSE JsonObject(201, TheRow(r.rows))

\* router.post("/")
PostResponse(r) ==
    IF r.kind = "error" THEN JsonMessage(500, "Error submitting data")
    ELSE JsonObject(201, TheRow(r.rows))

\* The catch block of router.put answering 404 when no row was returned.
PutResponseNotFound(r) ==
    IF r.kind = "error"
    THEN IF r.error = NoData THEN JsonMessage(404, "Record not found")
         ELSE JsonMessage(500, "Error updating data")
    ELSE JsonObject(200, TheRow(r.rows))

\* router.put("/:id")
PutResponse(r) ==
    IF r.kind = "error" THEN JsonMessage(500, "Error updating data")
    ELSE JsonObject(200, TheRow(r.rows))

\* router.delete testing rowCount >= 0 in place of rowCount > 0.
DeleteResponseAlways204(r) ==
    IF r.kind = "error" THEN JsonMessage(500, "Error deleting data")
    ELSE IF r.rowCount >= 0 THEN Empty(204)
    ELSE JsonMessage(404, "Record not found")

\* router.delete("/:id")
DeleteResponse(r) ==
    IF r.kind = "error" THEN JsonMessage(500, "Error deleting data")
    ELSE IF r.rowCount > 0 THEN Empty(204)
    ELSE JsonMessage(404, "Record not found")

BadRequest == JsonMessage(400, "All fields are required")

\* ------------------------------------------------------- history helpers
Live == {i \in Ids : written[i] # NoBody}
Seen201(id) == IsIntText(id) /\ PgInt(id) \in Ids /\ answered201[PgInt(id)] > 0
Seen204(id) == IsIntText(id) /\ PgInt(id) \in Ids /\ answered204[PgInt(id)] > 0
MatchedIds(t, id) == {r.id : r \in Matching(t, id)}

\* The response the handler of request q writes when it runs on.
Answer(q) ==
    CASE q.pc = "returning" -> BadRequest
      [] q.op = "list" -> GetAllResponse(q.result)
      [] q.op = "get" -> GetByIdResponse(q.result)
      [] q.op = "post" -> PostResponse(q.result)
      [] q.op = "put" -> PutResponse(q.result)
      [] q.op = "delete" -> DeleteResponse(q.result)

\* ------------------------------------------ handlers, up to their await
\* router.get("/") up to `await db.any(...)`
GetAllStart(K) ==
    /\ FreeSlot(K)
    /\ Enter(Suspended(Request("list", "", NoBody)))
    /\ UNCHANGED <<table, nextId, hist>>

\* router.get("/:id") up to `await db.oneOrNone(...)`
GetByIdStart(K) ==
    \E id \in PathIds :
        /\ FreeSlot(K)
        /\ Enter(Suspended([Request("get", id, NoBody) EXCEPT
                     !.after201 = Seen201(id), !.after204 = Seen204(id)]))
        /\ UNCHANGED <<table, nextId, hist>>

\* router.post("/") up to `await db.one(...)`, or to its early return
PostStart(B, K) ==
    \E body \in B :
        /\ FreeSlot(K)
        /\ IF MissingField(body)
           THEN Enter(Returning(Request("post", "", body)))
           ELSE Enter(Suspended(Request("post", "", body)))
        /\ UNCHANGED <<table, nextId, hist>>

\* router.put("/:id") up to `await db.one(...)`, or to its early return
PutStart(B, K) ==
    \E body \in B, id \in PathIds :
        /\ FreeSlot(K)
        /\ IF MissingField(body)
           THEN Enter(Returning(Request("put", id, body)))
           ELSE Enter(Suspended(Request("put", id, body)))
        /\ UNCHANGED <<table, nextId, hist>>

\* router.delete("/:id") up to `await db.result(...)`
DeleteStart(K) ==
    \E id \in PathIds :
        /\ FreeSlot(K)
        /\ Enter(Suspended([Request("delete", id, NoBody) EXCEPT
                     !.existed = IsIntText(id) /\ Matching(table, id) # {}]))
        /\ UNCHANGED <<table, nextId, hist>>

\* ------------------------------------------- the database runs a statement
Awaiting(q, op) == q.pc = "awaiting" /\ q.op = op

\* db.any("SELECT * FROM ach_data")
ExecSelectAll(q) ==
    /\ Awaiting(q, "list")
    /\ Move(q, [Settled(q, DbAny(SelectAll(table)), table, table) EXCEPT
                   !.expect = {<<i, written[i]>> : i \in Live}])
    /\ UNCHANGED <<table, nextId, hist>>

\* db.oneOrNone("SELECT * FROM ach_data WHERE id = $1", id)
ExecSelectById(q) ==
    /\ Awaiting(q, "get")
    /\ IF ~IsIntText(q.id)
       THEN Move(q, Settled(q, Rejected(BadInteger), table, table))
       ELSE Move(q, Settled(q, DbOneOrNone(SelectById(table, q.id)), table, table))
    /\ UNCHANGED <<table, nextId, hist>>

\* db.one("INSERT ... RETURNING *", [roomName, roomVolume, airflowRate, ach])
ExecInsert(q) ==
    /\ Awaiting(q, "post")
    /\ nextId \in Ids
    /\ LET row == NewRow(table, nextId, InsertParams(q.body))
           u == InsertInto(table, row)
       IN  /\ table' = u
           /\ nextId' = nextId + 1
           /\ Move(q, [Settled(q, DbOne(Inserted(row)), table, u) EXCEPT
                          !.fresh = row.id \notin {r.id : r \in table}])
           /\ written' = [i \in Ids |-> IF i = row.id THEN q.body ELSE written[i]]
    /\ UNCHANGED <<touched, answered201, answered204>>

\* db.one("UPDATE ... WHERE id = $5 RETURNING *", [..., id])
ExecUpdate(q) ==
    /\ Awaiting(q, "put")
    /\ LET p == UpdateParams(q.body, q.id) IN
         IF ~IsIntText(q.id)
         THEN /\ Move(q, Settled(q, Rejected(BadInteger), table, table))
              /\ UNCHANGED <<table, written, touched>>
         ELSE LET u == UpdateSet(table, p) IN
              /\ table' = u
              /\ Move(q, [Settled(q, DbOne(Updated(table, p)), table, u) EXCEPT
                             !.matched = Matching(table, q.id) # {}])
              /\ written' = [i \in Ids |->
                               IF i \in MatchedIds(table, q.id)
                               THEN q.body ELSE written[i]]
              /\ touched' = touched \cup MatchedIds(table, q.id)
    /\ UNCHANGED <<nextId, answered201, answered204>>

\* db.result("DELETE FROM ach_data WHERE id = $1", id)
ExecDelete(q) ==
    /\ Awaiting(q, "delete")
    /\ IF ~IsIntText(q.id)
       THEN /\ Move(q, Settled(q, Rejected(BadInteger), table, table))
            /\ UNCHANGED <<table, written, touched>>
       ELSE LET u == DeleteFrom(table, q.id) IN
            /\ table' = u
            /\ Move(q, [Settled(q, DbResult(Cardinality(table \ u)), table, u) EXCEPT
                           !.matched = Matching(table, q.id) # {}])
            /\ written' = [i \in Ids |->
                             IF i \in MatchedIds(table, q.id)
                             THEN NoBody ELSE written[i]]
            /\ touched' = touched \cup MatchedIds(table, q.id)
    /\ UNCHANGED <<nextId, answered201, answered204>>

\* The adapter call rejects without the statement taking effect
\* (the connection is refused or lost).
AdapterFails(q) ==
    /\ q.pc = "awaiting"
    /\ Move(q, Settled(q, Rejected(ConnectionLost), table, table))
    /\ UNCHANGED <<table, nextId, hist>>

\* --------------------------------------- handlers, from their await onwards
Resolved(q, op) == q.pc = "resolved" /\ q.op = op

\* `return res.status(400).json(...)` of router.post and router.put
Return400(q) ==
    /\ q.pc = "returning"
    /\ Leave(q)
    /\ UNCHANGED <<table, nextId, hist>>

GetAllResume(q) ==
    /\ Resolved(q, "list")
    /\ Leave(q)
    /\ UNCHANGED <<table, nextId, hist>>

GetByIdResume(q) ==
    /\ Resolved(q, "get")
    /\ Leave(q)
    /\ UNCHANGED <<table, nextId, hist>>

PostResume(q) ==
    /\ Resolved(q, "post")
    /\ Leave(q)
    /\ LET res == Answer(q) IN
         answered201' =
           IF res.status = 201 /\ TheRow(res.rows).id \in Ids
           THEN [answered201 EXCEPT ![TheRow(res.rows).id] = @ + 1]
           ELSE answered201
    /\ UNCHANGED <<table, nextId, written, touched, answered204>>

PutResume(q) ==
    /\ Resolved(q, "put")
    /\ Leave(q)
    /\ UNCHANGED <<table, nextId, hist>>

DeleteResume(q) ==
    /\ Resolved(q, "delete")
    /\ Leave(q)
    /\ LET res == Answer(q) IN
         answered204' =
           IF res.status = 204 /\ IsIntText(q.id) /\ PgInt(q.id) \in Ids
           THEN [answered204 EXCEPT ![PgInt(q.id)] = @ + 1]
           ELSE answered204
    /\ UNCHANGED <<table, nextId, written, touched, answered201>>

\* ------------------------------------------------------- specifications
MainBodies == ValidBodies \cup {ZeroAch}
AllBodies == ValidBodies \cup FaultyBodies

Step(B, K) ==
    \/ GetAllStart(K)
    \/ GetByIdStart(K)
    \/ PostStart(B, K)
    \/ PutStart(B, K)
    \/ DeleteStart(K)
    \/ \E q \in InFlight : ExecSelectAll(q)
    \/ \E q \in InFlight : ExecSelectById(q)
    \/ \E q \in InFlight : ExecInsert(q)
    \/ \E q \in InFlight : ExecUpdate(q)
    \/ \E q \in InFlight : ExecDelete(q)
    \/ \E q \in InFlight : AdapterFails(q)
    \/ \E q \in InFlight : Return400(q)
    \/ \E q \in InFlight : GetAllResume(q)
    \/ \E q \in InFlight : GetByIdResume(q)
    \/ \E q \in InFlight : PostResume(q)
    \/ \E q \in InFlight : PutResume(q)
    \/ \E q \in InFlight : DeleteResume(q)

\* Two handlers at a time; bodies: the valid ones and one with ach: 0.
Next == Step(MainBodies, Cardinality(Slots))
Spec == Init /\ [][Next]_vars

\* One handler at a time; bodies: the valid ones and every faulty one.
NextValidation == Step(AllBodies, 1)
SpecValidation == Init /\ [][NextValidation]_vars

\* ------------------------------------------------------------ properties
\* The requests whose response is determined: Answer(q) is what they write.
Answering == {q \in InFlight : q.pc \in {"resolved", "returning"}}
AnsweringOf(op) == {q \in Answering : q.op = op}
Completed(q) == q.pc = "resolved" /\ q.result.kind # "error"

\* The business fields of a request body as the statements bind them.
Business(body) == [f \in Fields |-> Destructure(body, f)]
\* The business fields a row carries, column by column.
Carried(r) ==
    [roomName |-> r.room_name, roomVolume |-> r.room_volume,
     airflowRate |-> r.airflow_rate, ach |-> r.ach]
Columns == {"id", "room_name", "room_volume", "airflow_rate", "ach"}
ApiFields == {"id", "roomName", "roomVolume", "airflowRate", "ach"}

\* C1: a POST with four truthy fields whose adapter call succeeds answers 201
\* with a record, and a GET of that id that starts after the 201, with no
\* UPDATE or DELETE of the id and no adapter failure, answers 200 with a
\* record of exactly the fields id, roomName, roomVolume, airflowRate, ach,
\* the four equal to the create body and id the assigned id.
C1_CreateThenGet ==
    /\ \A q \in AnsweringOf("post") :
          Completed(q) => Answer(q).status = 201 /\ Answer(q).kind = "object"
    /\ \A q \in AnsweringOf("get") :
          (Completed(q) /\ q.after201 /\ PgInt(q.id) \notin touched) =>
             /\ Answer(q).status = 200
             /\ Answer(q).kind = "object"
             /\ LET r == TheRow(Answer(q).rows) IN
                  /\ DOMAIN r = ApiFields
                  /\ r.id = PgInt(q.id)
                  /\ \A f \in Fields : r[f] = written[PgInt(q.id)][f]

\* What the code does in the case of C1: the record is the row under its
\* column names.
C1_ColumnNames ==
    \A q \in AnsweringOf("get") :
        (Completed(q) /\ q.after201 /\ PgInt(q.id) \notin touched) =>
           /\ Answer(q).status = 200
           /\ Answer(q).kind = "object"
           /\ LET r == TheRow(Answer(q).rows) IN
                /\ DOMAIN r = Columns
                /\ r.id = PgInt(q.id)
                /\ Carried(r) = Business(written[PgInt(q.id)])

\* A body with one of the four fields 0, "", null or left out.
Faulty(body) ==
    \E f \in Fields :
        \/ f \notin DOMAIN body
        \/ body[f] = Num(0)
        \/ body[f] = Str("")
        \/ body[f] = Null

\* C2: a POST or PUT whose body has one of the four fields 0, "", null or
\* omitted is answered 400 "All fields are required", makes no adapter call
\* and takes nothing from and puts nothing into the table, whether or not
\* the id of the PUT exists.
C2_FaultyBodyRejected ==
    \A q \in InFlight :
        (q.op \in {"post", "put"} /\ Faulty(q.body)) =>
           /\ q.pc = "returning"
           /\ Answer(q) = JsonMessage(400, "All fields are required")
           /\ q.calls = 0
           /\ q.removed = {} /\ q.added = {}

C2_Witness ==
    \E q \in AnsweringOf("put") :
        /\ "roomVolume" \notin DOMAIN q.body
        /\ Matching(table, q.id) # {}
        /\ Answer(q).status = 400

\* C3: a GET /ach whose adapter call succeeds answers 200 with an array
\* that holds every record created and not deleted when its statement ran
\* exactly once, with the business fields as last written by its create or
\* latest update, and that holds nothing else.
C3_ListComplete ==
    \A q \in AnsweringOf("list") :
        Completed(q) =>
           LET res == Answer(q)
               listed == BagToSet(res.rows)
           IN  /\ res.status = 200
               /\ res.kind = "array"
               /\ \A e \in q.expect :
                     /\ Cardinality({r \in listed : r.id = e[1]}) = 1
                     /\ \A r \in listed :
                           r.id = e[1] =>
                              /\ CopiesIn(r, res.rows) = 1
                              /\ Carried(r) = Business(e[2])
               /\ \A r \in listed : \E e \in q.expect : e[1] = r.id

C3_Witness ==
    \E q \in AnsweringOf("list") :
        /\ Completed(q)
        /\ \E e \in q.expect : e[1] \in touched /\ e[2] = Office
        /\ \E i \in Ids : i < nextId /\ \A e \in q.expect : e[1] # i
        /\ BagCardinality(Answer(q).rows) = 1

NotFound == JsonMessage(404, "Record not found")

\* C4 as stated: a GET of an id that starts after a DELETE of that id was
\* answered 204 answers 404 "Record not found".
C4_DeletedStaysNotFound ==
    \A q \in AnsweringOf("get") : q.after204 => Answer(q) = NotFound

\* C4 as amended: such a GET never answers 200; it answers 404 "Record not
\* found", or 500 "Error fetching data" when its adapter call fails; and no
\* row holds an id whose DELETE was answered 204.
C4_DeletedNeverReadable ==
    /\ \A q \in AnsweringOf("get") :
          q.after204 =>
             /\ Answer(q).status # 200
             /\ Completed(q) => Answer(q) = NotFound
             /\ q.result.kind = "error" =>
                   Answer(q) = JsonMessage(500, "Error fetching data")
    /\ \A i \in Ids : answered204[i] > 0 => \A r \in table : r.id # i

C4_Witness ==
    \E q \in AnsweringOf("get") :
        /\ q.after204
        /\ Completed(q)
        /\ Answer(q) = NotFound
        /\ \E r \in table : r.id \in touched

Pending201(i) ==
    BagCardinality(
        [q \in {x \in AnsweringOf("post") :
                  Completed(x) /\ TheRow(Answer(x).rows).id = i}
           |-> CopiesIn(q, inflight)])

\* C6: the ids of the records of all 201 responses, written or about to be
\* written by POSTs in flight together, are pairwise distinct, and each was
\* held by no row of the table when its INSERT ran.
C6_DistinctIds ==
    /\ \A i \in Ids : answered201[i] + Pending201(i) <= 1
    /\ \A q \in AnsweringOf("post") :
          Completed(q) =>
             /\ Answer(q).status = 201
             /\ q.fresh
             /\ CopiesIn(q, inflight) = 1

C6_Witness ==
    \E q1, q2 \in AnsweringOf("post") :
        /\ Completed(q1) /\ Completed(q2)
        /\ TheRow(Answer(q1).rows).id # TheRow(Answer(q2).rows).id
        /\ Answer(q1).status = 201 /\ Answer(q2).status = 201

\* What holds of every DELETE: 204 exactly when its statement found a row
\* of its id and removed it, 404 exactly when its statement ran and matched
\* no row, and it removes no row of another id.
DeleteOutcome(q) ==
    /\ Answer(q).status = 204 <=>
          (q.matched /\ q.removed # {} /\ q.result.kind = "count")
    /\ Answer(q).status = 404 <=> (q.result.kind = "count" /\ ~q.matched)
    /\ \A r \in q.removed : r.id = PgInt(q.id)

\* Two DELETEs of the same id in flight together, the row being there when
\* each of them started.
Racing(q1, q2) ==
    /\ q1 \in AnsweringOf("delete") /\ q2 \in AnsweringOf("delete")
    /\ q1.id = q2.id
    /\ q1.existed /\ q2.existed
    /\ q1 # q2 \/ CopiesIn(q1, inflight) >= 2

\* C7 as stated: DeleteOutcome, and of two racing DELETEs exactly one
\* answers 204 and the other 404.
C7_DeleteRace ==
    /\ \A q \in AnsweringOf("delete") : DeleteOutcome(q)
    /\ \A q1, q2 \in Answering :
          Racing(q1, q2) => {Answer(q1).status, Answer(q2).status} = {204, 404}

\* C7 as amended: DeleteOutcome, and of two racing DELETEs at most one
\* answers 204; one whose adapter call fails answers 500 "Error deleting
\* data"; when neither fails, exactly one answers 204 and the other 404.
C7_DeleteRaceAmended ==
    /\ \A q \in AnsweringOf("delete") : DeleteOutcome(q)
    /\ \A q1, q2 \in Answering :
          Racing(q1, q2) =>
             /\ ~(Answer(q1).status = 204 /\ Answer(q2).status = 204)
             /\ \A q \in {q1, q2} :
                   q.result.kind = "error" =>
                      Answer(q) = JsonMessage(500, "Error deleting data")
             /\ (Completed(q1) /\ Completed(q2)) =>
                   {Answer(q1).status, Answer(q2).status} = {204, 404}
    /\ \A i \in Ids : answered204[i] <= 1

C7_Witness ==
    \E q1, q2 \in Answering :
        /\ Racing(q1, q2)
        /\ Answer(q1).status = 204 /\ Answer(q2).status = 404
        /\ table # {}

FixedMessage(op) ==
    CASE op \in {"list", "get"} -> "Error fetching data"
      [] op = "post" -> "Error submitting data"
      [] op = "put" -> "Error updating data"
      [] op = "delete" -> "Error deleting data"

\* C8: a request whose adapter call fails is answered 500 with the fixed
\* message of its operation, whatever the error is, after one adapter call;
\* no request makes more than one adapter call.
C8_StorageErrors ==
    \A q \in InFlight :
        /\ q.calls <= 1
        /\ q.result.kind = "error" =>
              /\ q.calls = 1
              /\ Answer(q) = JsonMessage(500, FixedMessage(q.op))

C8_Witness ==
    \E q1, q2 \in AnsweringOf("put") :
        /\ q1.result.error = NoData
        /\ q2.result.error = ConnectionLost
        /\ Answer(q1) = Answer(q2)
        /\ Answer(q1).status = 500

\* The row a PUT of request q writes.
PutRow(q) ==
    [id |-> PgInt(q.id),
     room_name |-> Destructure(q.body, "roomName"),
     room_volume |-> Destructure(q.body, "roomVolume"),
     airflow_rate |-> Destructure(q.body, "airflowRate"),
     ach |-> Destructure(q.body, "ach")]

\* C9: no id is held by two rows; a PUT whose adapter call succeeds answers
\* 200 with the row of its path id carrying the four values of its body,
\* and its statement replaced at most the one row of that id by that row
\* and touched no other row.
C9_IdImmutable ==
    /\ \A r1, r2 \in table : r1.id = r2.id => r1 = r2
    /\ \A q \in AnsweringOf("put") :
          Completed(q) =>
             /\ Answer(q) = JsonObject(200, PutRow(q))
             /\ q.matched
             /\ q.added \subseteq {PutRow(q)}
             /\ \A r \in q.removed : r.id = PgInt(q.id)
             /\ Cardinality(q.removed) <= 1
             /\ q.removed = {} <=> q.added = {}

C9_Witness ==
    \E q \in AnsweringOf("put") :
        /\ Completed(q)
        /\ q.removed # {} /\ q.added = {PutRow(q)}
        /\ \E r \in table : r.id # PgInt(q.id)

Writers == {<<"post", 201>>, <<"put", 200>>, <<"delete", 204>>}

\* C10: every step that changes the table is the statement of one request
\* settling, that request is a POST that will answer 201, a PUT that will
\* answer 200 or a DELETE that will answer 204, and the change is what that
\* request removed and added; no other request removed or added anything.
C10_OnlyWritersChange ==
    [][/\ table' # table =>
             \E r \in BagToSet(inflight') :
                /\ r.pc = "resolved"
                /\ CopiesIn(r, inflight') > CopiesIn(r, inflight)
                /\ r.removed = table \ table'
                /\ r.added = table' \ table
                /\ <<r.op, Answer(r).status>> \in Writers
       /\ \A q \in BagToSet(inflight') :
             (q.removed # {} \/ q.added # {}) =>
                q.pc = "resolved" /\ <<q.op, Answer(q).status>> \in Writers
      ]_vars

C10_Witness ==
    \E q1, q2 \in Answering :
        /\ Answer(q1).status = 500 /\ q1.op = "put" /\ q1.result.error = NoData
        /\ Answer(q2).status = 404 /\ q2.op = "get"
        /\ table # {}

====
